---- MODULE Spec2Model ----
(***************************************************************************)
(* Model of the fax <-> email bridge of src/app.py: the two webhook        *)
(* handlers (/faxes, /email/inbound), the Redis fax_id -> file_path store, *)
(* the staging directory, the Celery queue and its three tasks.            *)
(*                                                                         *)
(* Text is modelled as a sequence of tokens (a token is a separator such   *)
(* as "/", ".", "@", "<" or a run of letters/digits), so that basename,    *)
(* join, split, strip, lower and the regular expressions of the source are *)
(* computed, not assumed.                                                  *)
(*                                                                         *)
(* The failures modelled are those the source raises or catches itself:    *)
(* the attachment fetch (raise_for_status), the enqueue (delay) and the    *)
(* file removal (both under try/except), the steps of the tasks, a missing *)
(* TELNYX_S3_BUCKET.  The Redis store is taken to answer every call.       *)
(***************************************************************************)
EXTENDS Integers, Sequences, FiniteSets, TLC

VARIABLES store, files, queue, s3, last, prev, nEvents, procs, worker, extracted

vars == <<store, files, queue, s3, last, prev, nEvents, procs, worker, extracted>>

(***************************************************************************)
(* Bounds of the model.                                                    *)
(***************************************************************************)
\* requests handled in a behaviour of Spec, and of SpecFaxes
MaxEvents == 2
MaxFaxEvents == 3
\* messages in the queue
MaxQueue == 2
MaxPieces == 3
MaxRaceEvents == 2
MaxOutEvents == 1

(***************************************************************************)
(* Python's None / False / "" : every falsy result of the source.          *)
(***************************************************************************)
None == <<>>

FaxIds == {"f1", "f2"}

\* src/app.py:61 (one token: no operation of the program looks inside it)
DOWNLOAD_DIR == <<"/opt/telnyx/downloads">>

(***************************************************************************)
(* Generic text helpers (Python built-ins used by the source).             *)
(***************************************************************************)
\* the positions of token c in s
Positions(s, c) == {i \in 1..Len(s) : s[i] = c}

SetMax(S) == CHOOSE m \in S : \A x \in S : x <= m

SetMin(S) == CHOOSE m \in S : \A x \in S : m <= x

\* os.path.basename: what follows the last "/"
basename(p) ==
    IF Positions(p, "/") = {} THEN p
    ELSE SubSeq(p, SetMax(Positions(p, "/")) + 1, Len(p))

\* os.path.join(dir, name) for a relative name
join(dir, name) == dir \o <<"/">> \o name

\* str.lower on one token
LowerTok(t) ==
    CASE t = "J" -> "j"
      [] t = "X" -> "x"
      [] t = "PDF" -> "pdf"
      [] t = "Pdf" -> "pdf"
      [] t = "TXT" -> "txt"
      [] t = "EXE" -> "exe"
      [] OTHER -> t

\* str.lower
lower(s) == [i \in 1..Len(s) |-> LowerTok(s[i])]

\* s without its leading tokens that are in cs  (str.lstrip)
RECURSIVE lstrip(_, _)
lstrip(s, cs) ==
    IF s # <<>> /\ Head(s) \in cs THEN lstrip(Tail(s), cs) ELSE s

\* s without its trailing tokens that are in cs  (str.rstrip)
RECURSIVE rstrip(_, _)
rstrip(s, cs) ==
    IF s # <<>> /\ s[Len(s)] \in cs THEN rstrip(SubSeq(s, 1, Len(s) - 1), cs) ELSE s

\* str.strip
strip(s, cs) == rstrip(lstrip(s, cs), cs)

\* s.split(c)[0]: what precedes the first c
split_head(s, c) ==
    IF Positions(s, c) = {} THEN s
    ELSE SubSeq(s, 1, SetMin(Positions(s, c)) - 1)

Whitespace == {" "}

\* the end of the longest run of tokens of class cs that starts at i (i - 1 if none)
RECURSIVE RunEnd(_, _, _)
RunEnd(s, i, cs) ==
    IF i <= Len(s) /\ s[i] \in cs THEN RunEnd(s, i + 1, cs) ELSE i - 1

(***************************************************************************)
(* The Redis store (db 1): fax_id -> file_path.                            *)
(***************************************************************************)
\* a handler that forgets to write the record
set_fax_file_lost(st, fax_id, file_path) == st

set_fax_file(st, fax_id, file_path) ==
    [k \in (DOMAIN st) \cup {fax_id} |-> IF k = fax_id THEN file_path ELSE st[k]]

get_fax_file(st, fax_id) ==
    IF fax_id \in DOMAIN st /\ st[fax_id] # None THEN st[fax_id] ELSE None

\* a delete that leaves the record in the store
delete_fax_file_kept(st, fax_id) == st

delete_fax_file(st, fax_id) ==
    [k \in (DOMAIN st) \ {fax_id} |-> st[k]]

(***************************************************************************)
(* The directory db.json: a list of records phone_number, email.           *)
(***************************************************************************)
PhoneA == <<"+", "1">>
PhoneB == <<"+", "2">>
PhoneC == <<"+", "3">>
EmailA == <<"J", "@", "x", ".", "x">>
EmailB == <<"k", "@", "x", ".", "x">>

\* src/app.py:53-54
DB ==
    << [phone_number |-> PhoneA, email |-> EmailA],
       [phone_number |-> PhoneB, email |-> EmailB] >>

\* the first of the indices S of matching records, as the for-loops of the
\* source return it; 0 when there is none
FirstIndex(S) == IF S = {} THEN 0 ELSE SetMin(S)

get_email_from_phone_number(db, phone_number) ==
    LET i == FirstIndex({k \in 1..Len(db) : db[k].phone_number = phone_number})
    IN  IF i = 0 THEN None ELSE db[i].email

(***************************************************************************)
(* Jobs of the Celery queue.  retries is the Celery request.retries        *)
(* counter of the message.                                                 *)
(***************************************************************************)
EmailJob(attachment, from_number, to_number, email) ==
    [kind |-> "send-email", file_path |-> attachment, file_name |-> None,
     to |-> to_number, from |-> from_number, email |-> email, retries |-> 0]

PurgeJob(file_name) ==
    [kind |-> "purge-remote-blob", file_path |-> None, file_name |-> file_name,
     to |-> None, from |-> None, email |-> None, retries |-> 0]

FaxJob(file_path, file_name, to_number, from_number) ==
    [kind |-> "send-fax", file_path |-> file_path, file_name |-> file_name,
     to |-> to_number, from |-> from_number, email |-> None, retries |-> 0]

(***************************************************************************)
(* POST /faxes                                                             *)
(***************************************************************************)
\* a request body is the record of the keys json.loads finds in it (the keys
\* of data and data.payload, flattened); a body json.loads rejects has only
\* the key raw
Key(body, k) == k \in DOMAIN body

\* a staged path without the default name of a url that ends in "/"
download_path_bare(url) == join(DOWNLOAD_DIR, basename(url))

\* download_file: the staged path of a fetched url
download_path(url) ==
    LET bn == basename(url)
        file_name == IF bn = <<>> THEN <<"attachment">> ELSE bn
    IN  join(DOWNLOAD_DIR, file_name)

\* the state and the response inbound_message leaves, as a record
Outcome(st, fs, q, resp) == [store |-> st, files |-> fs, queue |-> q, resp |-> resp]

\* a handler that writes the record before it has fetched the file
received_early(st, fs, q, db, body, env) ==
    IF ~ (Key(body, "to") /\ Key(body, "from") /\ Key(body, "media_url"))
    THEN Outcome(st, fs, q, 500)
    ELSE IF env.fetch # "ok"
    THEN Outcome(set_fax_file(st, body.fax_id, download_path(body.media_url)), fs, q, 500)
    ELSE
      LET attachment == download_path(body.media_url)
          fs1 == fs \cup {attachment}
          st1 == set_fax_file(st, body.fax_id, attachment)
          email == get_email_from_phone_number(db, body.to)
      IN  IF email = None
          THEN Outcome(st1, fs1, q, 200)
          ELSE IF env.enqueue # "ok"
          THEN Outcome(st1, fs1, q, 200)
          ELSE Outcome(st1, fs1,
                       Append(q, EmailJob(attachment, body.from, body.to, email)), 200)

\* fax.received / inbound branch
received(st, fs, q, db, body, env) ==
    IF ~ (Key(body, "to") /\ Key(body, "from") /\ Key(body, "media_url"))
    THEN Outcome(st, fs, q, 500)
    ELSE IF env.fetch # "ok"
    THEN Outcome(st, fs, q, 500)
    ELSE
      LET attachment == download_path(body.media_url)
          fs1 == fs \cup {attachment}
          st1 == set_fax_file(st, body.fax_id, attachment)
          email == get_email_from_phone_number(db, body.to)
      IN  IF email = None
          THEN Outcome(st1, fs1, q, 200)
          ELSE IF env.enqueue # "ok"
          THEN Outcome(st1, fs1, q, 200)
          ELSE Outcome(st1, fs1,
                       Append(q, EmailJob(attachment, body.from, body.to, email)), 200)

\* a cleanup that purges under the whole path of the file
delivered_path(st, fs, q, body, env) ==
    LET file_path == get_fax_file(st, body.fax_id)
        st1 == delete_fax_file(st, body.fax_id)
    IN  IF file_path # None /\ file_path \in fs
        THEN IF env.remove # "ok"
             THEN Outcome(st1, fs, q, 200)
             ELSE IF env.enqueue # "ok"
             THEN Outcome(st1, fs \ {file_path}, q, 200)
             ELSE Outcome(st1, fs \ {file_path}, Append(q, PurgeJob(file_path)), 200)
        ELSE Outcome(st1, fs, q, 200)

\* fax.delivered / fax.email.delivered branch
delivered(st, fs, q, body, env) ==
    LET file_path == get_fax_file(st, body.fax_id)
        st1 == delete_fax_file(st, body.fax_id)
    IN  IF file_path # None /\ file_path \in fs
        THEN IF env.remove # "ok"
             THEN Outcome(st1, fs, q, 200)
             ELSE IF env.enqueue # "ok"
             THEN Outcome(st1, fs \ {file_path}, q, 200)
             ELSE Outcome(st1, fs \ {file_path},
                          Append(q, PurgeJob(basename(file_path))), 200)
        ELSE Outcome(st1, fs, q, 200)

\* a handler that takes every fax.received event, whatever its direction
inbound_message_anydir(st, fs, q, db, body, env) ==
    IF ~ (Key(body, "fax_id") /\ Key(body, "event_type") /\ Key(body, "direction"))
    THEN Outcome(st, fs, q, 500)
    ELSE IF body.event_type = "fax.received"
    THEN received(st, fs, q, db, body, env)
    ELSE IF body.event_type \in {"fax.delivered", "fax.email.delivered"}
    THEN delivered(st, fs, q, body, env)
    ELSE Outcome(st, fs, q, 200)

inbound_message(st, fs, q, db, body, env) ==
    IF ~ (Key(body, "fax_id") /\ Key(body, "event_type") /\ Key(body, "direction"))
    THEN Outcome(st, fs, q, 500)
    ELSE IF body.event_type = "fax.received" /\ body.direction = "inbound"
    THEN received(st, fs, q, db, body, env)
    ELSE IF body.event_type \in {"fax.delivered", "fax.email.delivered"}
    THEN delivered(st, fs, q, body, env)
    ELSE Outcome(st, fs, q, 200)

(***************************************************************************)
(* POST /email/inbound                                                     *)
(***************************************************************************)
\* the characters of the classes of the regular expression of extract_email
Alnum == {"j", "J", "k", "x", "X", "1", "2", "3"}
LocalCh == Alnum \cup {"_", ".", "+", "-"}
DomainCh == Alnum \cup {"-"}
TldCh == Alnum \cup {"-", "."}

\* every character a From field of the model is made of (after unescaping)
FromChars == Alnum \cup {"_", ".", "+", "-", "@", "<", ">", " ", "&"}

\* html.unescape, on the character references the model uses
unescape_tok(t) ==
    CASE t = "&lt;" -> "<"
      [] t = "&gt;" -> ">"
      [] t = "&amp;" -> "&"
      [] OTHER -> t

unescape(s) == [i \in 1..Len(s) |-> unescape_tok(s[i])]

\* the end of the match of [a-zA-Z0-9_.+\-]+@[a-zA-Z0-9\-]+\.[a-zA-Z0-9\-.]+
\* that starts at i, 0 when there is none
match_end(s, i) ==
    LET a == RunEnd(s, i, LocalCh)
        b == RunEnd(s, a + 2, DomainCh)
        c == RunEnd(s, b + 2, TldCh)
    IN  IF a < i \/ a + 1 > Len(s) THEN 0
        ELSE IF s[a + 1] # "@" \/ b < a + 2 \/ b + 1 > Len(s) THEN 0
        ELSE IF s[b + 1] # "." \/ c < b + 2 THEN 0
        ELSE c

\* re.findall: the non-overlapping matches, leftmost first, from pos on
RECURSIVE findall(_, _)
findall(s, pos) ==
    IF pos > Len(s) THEN <<>>
    ELSE IF match_end(s, pos) > 0
    THEN <<SubSeq(s, pos, match_end(s, pos))>> \o findall(s, match_end(s, pos) + 1)
    ELSE findall(s, pos + 1)

\* the starts of the matches of <([^<>]+)>
angle_starts(s) ==
    {i \in Positions(s, "<") :
        LET e == RunEnd(s, i + 1, FromChars \ {"<", ">"})
        IN  e >= i + 1 /\ e + 1 <= Len(s) /\ s[e + 1] = ">"}

\* a search that returns the rightmost match
search_angle_last(s) ==
    IF angle_starts(s) = {} THEN None
    ELSE LET i == SetMax(angle_starts(s))
         IN  SubSeq(s, i + 1, RunEnd(s, i + 1, FromChars \ {"<", ">"}))

\* re.search(r"<([^<>]+)>", s).group(1): the leftmost match
search_angle(s) ==
    IF angle_starts(s) = {} THEN None
    ELSE LET i == SetMin(angle_starts(s))
         IN  SubSeq(s, i + 1, RunEnd(s, i + 1, FromChars \ {"<", ">"}))

extract_email(raw_email) ==
    LET decoded == unescape(raw_email)
        emails == findall(decoded, 1)
    IN  IF emails # <<>> THEN lower(emails[Len(emails)])
        ELSE IF search_angle(decoded) # None THEN lower(search_angle(decoded))
        ELSE None

\* get_phone_number_from_email: raised is the AttributeError of None.lower()
get_phone_number_from_email(db, email) ==
    IF email = None /\ db # <<>>
    THEN [raised |-> TRUE, value |-> None]
    ELSE LET i == FirstIndex({k \in 1..Len(db) : lower(db[k].email) = lower(email)})
         IN  [raised |-> FALSE, value |-> IF i = 0 THEN None ELSE db[i].phone_number]

\* the phone number of the To field
to_phone(to_field) ==
    LET to_number_raw ==
            strip(strip(strip(split_head(to_field, "@"), Whitespace), {"'"}), {"\""})
    IN  <<"+">> \o lstrip(to_number_raw, {"+"})

\* every token a filename of the model is made of: words, and the characters
\* ".", "_", "-", "/", " ", "$"
FileChars == {"fax", "report", "n", "pdf", "PDF", "txt", "TXT", "exe",
              ".", "_", "-", "/", " ", "$"}

\* "_".join(filename.split()): runs of blanks become one "_", none at the ends
RECURSIVE join_words(_)
join_words(s) ==
    LET t == lstrip(s, Whitespace)
        e == RunEnd(t, 1, FileChars \ Whitespace)
        rest == lstrip(SubSeq(t, e + 1, Len(t)), Whitespace)
    IN  IF t = <<>> THEN <<>>
        ELSE IF rest = <<>> THEN SubSeq(t, 1, e)
        ELSE SubSeq(t, 1, e) \o <<"_">> \o join_words(rest)

\* the tokens [^A-Za-z0-9_.-] removes
Unsafe == {"$", "/", " "}

\* werkzeug.utils.secure_filename
secure_filename(filename) ==
    LET spaced == [i \in 1..Len(filename) |->
                      IF filename[i] = "/" THEN " " ELSE filename[i]]
        joined == join_words(spaced)
        kept == SelectSeq(joined, LAMBDA t : t \notin Unsafe)
    IN  strip(kept, {".", "_"})

\* filename.rsplit(".", 1)[1]
extension(filename) == SubSeq(filename, SetMax(Positions(filename, ".")) + 1, Len(filename))

allowed_extensions == {<<"txt">>, <<"pdf">>}

\* a filter that only asks for some extension
allowed_file_any(filename) == Positions(filename, ".") # {}

allowed_file(filename) ==
    /\ Positions(filename, ".") # {}
    /\ lower(extension(filename)) \in allowed_extensions

allowed_mimetypes == {"application/pdf", "text/plain"}

\* int() of the attachment-count field
to_int(tok) ==
    CASE tok = "0" -> 0
      [] tok = "1" -> 1
      [] tok = "2" -> 2
      [] tok = "3" -> 3
      [] tok = "4" -> 4

\* the body of the loop over attachment-i, from index i on
RECURSIVE attachments(_, _, _, _, _, _, _, _)
attachments(fs, q, ev, env, i, n, to_phone_number, from_phone_number) ==
    IF i > n THEN [files |-> fs, queue |-> q]
    ELSE IF i \notin DOMAIN ev.parts \/ ev.parts[i].filename = <<>>
    THEN attachments(fs, q, ev, env, i + 1, n, to_phone_number, from_phone_number)
    ELSE
      LET file == ev.parts[i]
          filename == secure_filename(file.filename)
          file_path == join(DOWNLOAD_DIR, filename)
      IN  IF ~ allowed_file(filename) \/ file.mimetype \notin allowed_mimetypes
          THEN attachments(fs, q, ev, env, i + 1, n, to_phone_number, from_phone_number)
          ELSE IF i \in env.enqueue_fails
          THEN attachments(fs \cup {file_path}, q, ev, env, i + 1, n,
                           to_phone_number, from_phone_number)
          ELSE attachments(fs \cup {file_path},
                           Append(q, FaxJob(file_path, filename, to_phone_number,
                                            from_phone_number)),
                           ev, env, i + 1, n, to_phone_number, from_phone_number)

inbound_email(st, fs, q, db, ev, env) ==
    IF ~ Key(ev, "To") THEN Outcome(st, fs, q, 400)
    ELSE
      LET to_phone_number == to_phone(ev.To)
          from_email == extract_email(IF Key(ev, "From") THEN ev.From ELSE <<>>)
          from_phone_number == get_phone_number_from_email(db, from_email)
          attachment_count == to_int(IF Key(ev, "count") THEN ev.count ELSE "0")
          done == attachments(fs, q, ev, env, 1, attachment_count,
                              to_phone_number, from_phone_number.value)
      IN  IF from_phone_number.raised THEN Outcome(st, fs, q, 500)
          ELSE IF from_phone_number.value = None THEN Outcome(st, fs, q, 200)
          ELSE IF attachment_count = 0 THEN Outcome(st, fs, q, 200)
          ELSE Outcome(st, done.files, done.queue, 200)

(***************************************************************************)
(* The Celery tasks.  A task leaves a state and a task status: SUCCESS     *)
(* (the body returned), RETRY (self.retry re-queued the message), FAILURE  *)
(* (the body raised).                                                      *)
(***************************************************************************)
\* src/app.py:185, src/app.py:206
max_retries == 3

TaskOutcome(st, fs, q, objs, status) ==
    [store |-> st, files |-> fs, queue |-> q, s3 |-> objs, status |-> status]

\* a retry that gives up one attempt early
retry_early(st, fs, q, objs, job) ==
    IF job.retries + 1 >= max_retries
    THEN TaskOutcome(st, fs, q, objs, "FAILURE")
    ELSE TaskOutcome(st, fs, Append(q, [job EXCEPT !.retries = @ + 1]), objs, "RETRY")

\* Task.retry(exc=exc): re-queues the message with retries + 1, or raises exc
\* once that would exceed max_retries
retry(st, fs, q, objs, job) ==
    IF job.retries + 1 > max_retries
    THEN TaskOutcome(st, fs, q, objs, "FAILURE")
    ELSE TaskOutcome(st, fs, Append(q, [job EXCEPT !.retries = @ + 1]), objs, "RETRY")

\* send_email opens the attachment, then posts to the relay
send_email_task(st, fs, q, objs, job, env) ==
    IF job.file_path \notin fs \/ env.mail # "ok"
    THEN retry(st, fs, q, objs, job)
    ELSE TaskOutcome(st, fs, q, objs, "SUCCESS")

\* env.step names the step that fails: bucket (TELNYX_S3_BUCKET is not set),
\* upload (NoCredentialsError), presign, create (the carrier call raises),
\* status (the carrier answers "fail"), none
\* a task that removes the staged file once the fax is created
send_fax_task_unlink(st, fs, q, objs, job, env) ==
    IF env.step \in {"bucket", "upload"} \/ job.file_path \notin fs
    THEN TaskOutcome(st, fs, q, objs, "SUCCESS")
    ELSE IF env.step \in {"presign", "create", "status"}
    THEN TaskOutcome(st, fs, q, objs \cup {job.file_name}, "SUCCESS")
    ELSE TaskOutcome(set_fax_file(st, env.fax_id, job.file_path),
                     fs \ {job.file_path}, q, objs \cup {job.file_name}, "SUCCESS")

send_fax_task(st, fs, q, objs, job, env) ==
    IF env.step \in {"bucket", "upload"} \/ job.file_path \notin fs
    THEN TaskOutcome(st, fs, q, objs, "SUCCESS")
    ELSE IF env.step \in {"presign", "create", "status"}
    THEN TaskOutcome(st, fs, q, objs \cup {job.file_name}, "SUCCESS")
    ELSE TaskOutcome(set_fax_file(st, env.fax_id, job.file_path), fs, q,
                     objs \cup {job.file_name}, "SUCCESS")

delete_from_s3_task(st, fs, q, objs, job, env) ==
    IF env.s3del = "bucket" THEN TaskOutcome(st, fs, q, objs, "FAILURE")
    ELSE IF env.s3del # "ok" THEN TaskOutcome(st, fs, q, objs, "SUCCESS")
    ELSE TaskOutcome(st, fs, q, objs \ {job.file_name}, "SUCCESS")

\* one execution of job by a worker; q is the queue without the message
execute(st, fs, q, objs, job, env) ==
    CASE job.kind = "send-email" -> send_email_task(st, fs, q, objs, job, env)
      [] job.kind = "send-fax" -> send_fax_task(st, fs, q, objs, job, env)
      [] job.kind = "purge-remote-blob" -> delete_from_s3_task(st, fs, q, objs, job, env)

RemoveAt(q, i) == SubSeq(q, 1, i - 1) \o SubSeq(q, i + 1, Len(q))

(***************************************************************************)
(* The requests the carrier can send to /faxes.                            *)
(***************************************************************************)
UrlA == <<"/", "m", "/", "a", ".", "pdf">>
UrlB == <<"/", "n", "/", "a", ".", "pdf">>
UrlRoot == <<"/", "m", "/">>

ReceivedBody(fax_id, direction, to_number, media_url) ==
    [event_type |-> "fax.received", direction |-> direction, fax_id |-> fax_id,
     to |-> to_number, from |-> PhoneC, media_url |-> media_url]

\* fax.received with every field of its payload
ReceivedBodies ==
    { ReceivedBody("f1", "inbound", PhoneA, UrlA),
      ReceivedBody("f2", "inbound", PhoneA, UrlB),
      ReceivedBody("f2", "inbound", PhoneB, UrlRoot),
      ReceivedBody("f1", "inbound", PhoneC, UrlRoot),
      ReceivedBody("f1", "outbound", PhoneA, UrlA) }

\* the events that carry no attachment
ShortBodies ==
    { [event_type |-> "fax.delivered", direction |-> "outbound", fax_id |-> "f1"],
      [event_type |-> "fax.email.delivered", direction |-> "inbound", fax_id |-> "f1"],
      [event_type |-> "fax.delivered", direction |-> "outbound", fax_id |-> "f2"],
      [event_type |-> "fax.failed", direction |-> "outbound", fax_id |-> "f1"],
      [event_type |-> "fax.received", direction |-> "inbound", fax_id |-> "f1"] }

\* bodies json.loads rejects, or that lack a key inbound_message reads first
MalformedBodies ==
    { [raw |-> "not json"],
      [event_type |-> "fax.delivered", direction |-> "outbound"],
      [event_type |-> "fax.received", fax_id |-> "f1"],
      [direction |-> "inbound", fax_id |-> "f1"] }

FaxBodies == ReceivedBodies \cup ShortBodies \cup MalformedBodies

(***************************************************************************)
(* The requests the relay can send to /email/inbound.                      *)
(***************************************************************************)
ToQuoted == <<" ", "'", "+", "3", "'", "@", "x", ".", "x">>
FromNamed == <<"J", " ", "<", "J", "@", "x", ".", "x", ">">>
FromEscaped == <<"&lt;", "k", "@", "x", ".", "x", "&gt;">>
FromGarbled == <<"j", " ", "x">>
FromAngle == <<"<", "j", ">">>

PartPdf == [filename |-> <<"fax", ".", "pdf">>, mimetype |-> "application/pdf"]
PartTxt == [filename |-> <<"n", ".", "TXT">>, mimetype |-> "text/plain"]
PartExe == [filename |-> <<"report", ".", "exe">>, mimetype |-> "application/pdf"]
PartPng == [filename |-> <<"fax", ".", "pdf">>, mimetype |-> "image/png"]
PartDir == [filename |-> <<".", ".", "/", "fax", ".", "pdf">>, mimetype |-> "application/pdf"]
PartBare == [filename |-> <<"pdf">>, mimetype |-> "application/pdf"]

EmailEvent(to_field, from_field, count, parts) ==
    [To |-> to_field, From |-> from_field, count |-> count, parts |-> parts]

EmailEvents ==
    { [From |-> FromNamed, count |-> "1", parts |-> <<PartPdf>>],
      [To |-> ToQuoted, count |-> "1", parts |-> <<PartPdf>>],
      [To |-> ToQuoted, From |-> FromNamed, parts |-> <<PartPdf>>],
      EmailEvent(ToQuoted, FromGarbled, "1", <<PartPdf>>),
      EmailEvent(ToQuoted, FromAngle, "1", <<PartPdf>>),
      EmailEvent(ToQuoted, FromEscaped, "1", <<PartPdf>>),
      EmailEvent(ToQuoted, FromNamed, "0", <<PartPdf>>),
      EmailEvent(ToQuoted, FromNamed, "1", <<PartExe>>),
      EmailEvent(ToQuoted, FromNamed, "1", <<PartPdf, PartTxt>>),
      EmailEvent(ToQuoted, FromNamed, "2", <<PartTxt, PartPdf>>),
      EmailEvent(ToQuoted, FromNamed, "2", <<PartPng, PartDir>>),
      EmailEvent(ToQuoted, FromNamed, "2", <<PartBare>>),
      EmailEvent(ToQuoted, FromNamed, "2", [i \in {2} |-> PartPdf]) }

(***************************************************************************)
(* The outcomes of the calls the program makes to its environment.         *)
(***************************************************************************)
Results == {"ok", "fail"}

Steps == {"none", "bucket", "upload", "presign", "create", "status"}

NoEnv == [fetch |-> "ok", enqueue |-> "ok", remove |-> "ok", enqueue_fails |-> {},
          mail |-> "ok", step |-> "none", fax_id |-> "f1", s3del |-> "ok"]

Recognized(body) ==
    /\ Key(body, "fax_id") /\ Key(body, "event_type") /\ Key(body, "direction")
    /\ \/ body.event_type = "fax.received" /\ body.direction = "inbound"
       \/ body.event_type \in {"fax.delivered", "fax.email.delivered"}

WellShaped(body) ==
    /\ Recognized(body)
    /\ body.event_type = "fax.received" =>
          Key(body, "to") /\ Key(body, "from") /\ Key(body, "media_url")

\* the outcomes the handling of body can meet, each named once: a call that
\* is not reached has the outcome "ok"
FaxEnvs(body) ==
    IF ~ WellShaped(body) THEN {NoEnv}
    ELSE IF body.event_type = "fax.received"
    THEN {[NoEnv EXCEPT !.fetch = "fail"]}
         \cup IF get_email_from_phone_number(DB, body.to) = None
              THEN {NoEnv}
              ELSE {[NoEnv EXCEPT !.enqueue = e] : e \in Results}
    ELSE IF get_fax_file(store, body.fax_id) \in files
    THEN {NoEnv, [NoEnv EXCEPT !.remove = "fail"], [NoEnv EXCEPT !.enqueue = "fail"]}
    ELSE {NoEnv}

EmailEnvs(ev) ==
    IF Len(inbound_email(store, files, queue, DB, ev, NoEnv).queue) > Len(queue)
    THEN {[NoEnv EXCEPT !.enqueue_fails = F] : F \in {{}, {1}, {2}}}
    ELSE {NoEnv}

RunEnvs(job) ==
    CASE job.kind = "send-email" -> {[NoEnv EXCEPT !.mail = m] : m \in Results}
      [] job.kind = "send-fax" ->
            {[NoEnv EXCEPT !.step = t] : t \in Steps \ {"none"}}
            \cup {[NoEnv EXCEPT !.fax_id = f] : f \in FaxIds}
      [] job.kind = "purge-remote-blob" ->
            {[NoEnv EXCEPT !.s3del = d] : d \in {"ok", "fail", "bucket"}}

(***************************************************************************)
(* The record of the last operation: the request, the outcomes it met, the *)
(* response or task status, the files it deleted, the messages it added to *)
(* the queue, whether it changed the store, the files or the queue,        *)
(* whether it wrote the store, whether it kept the messages that were      *)
(* queued, the record it found under the fax_id of the request and whether *)
(* that file existed, and whether it is the request that was answered 200  *)
(* just before, handled again.  prev keeps, of the operation before the    *)
(* last, the delivery confirmation it handled, if it was one.              *)
(***************************************************************************)
NoOp == [op |-> "init", req |-> [raw |-> "none"], env |-> NoEnv, resp |-> 0,
         status |-> "none", deleted |-> {}, enq |-> <<>>, changed |-> FALSE,
         recorded |-> FALSE, kept |-> TRUE, found |-> None, existed |-> FALSE,
         again |-> FALSE]

Done(op, req, env, resp, status, out) ==
    [op |-> op, req |-> req, env |-> env, resp |-> resp, status |-> status,
     deleted |-> files \ out.files,
     enq |-> IF Len(out.queue) > Len(queue)
             THEN SubSeq(out.queue, Len(queue) + 1, Len(out.queue)) ELSE <<>>,
     changed |-> (out.store # store \/ out.files # files \/ out.queue # queue),
     recorded |-> (out.store # store),
     kept |-> (Len(out.queue) >= Len(queue)
               /\ SubSeq(out.queue, 1, Len(queue)) = queue),
     found |-> IF Key(req, "fax_id") /\ req.fax_id \in DOMAIN store
               THEN store[req.fax_id] ELSE None,
     existed |-> (Key(req, "fax_id") /\ req.fax_id \in DOMAIN store
                  /\ store[req.fax_id] \in files),
     again |-> (op = last.op /\ req = last.req /\ last.resp = 200)]

IsDelivery(l) ==
    /\ l.op = "faxes"
    /\ WellShaped(l.req)
    /\ l.req.event_type \in {"fax.delivered", "fax.email.delivered"}

NoDelivery == [fax_id |-> "", deleted |-> 0, enq |-> 0]

Brief(l) ==
    IF IsDelivery(l)
    THEN [fax_id |-> l.req.fax_id, deleted |-> Cardinality(l.deleted), enq |-> Len(l.enq)]
    ELSE NoDelivery

(***************************************************************************)
(* Actions.                                                                *)
(***************************************************************************)
Faxes(body, env) ==
    LET out == inbound_message(store, files, queue, DB, body, env)
    IN  /\ Len(out.queue) <= MaxQueue
        /\ store' = out.store
        /\ files' = out.files
        /\ queue' = out.queue
        /\ last' = Done("faxes", body, env, out.resp, "HTTP", out)
        /\ prev' = Brief(last)
        /\ nEvents' = nEvents + 1
        /\ UNCHANGED <<s3, procs, worker, extracted>>

Email(ev, env) ==
    LET out == inbound_email(store, files, queue, DB, ev, env)
    IN  /\ Len(out.queue) <= MaxQueue
        /\ store' = out.store
        /\ files' = out.files
        /\ queue' = out.queue
        /\ last' = Done("email", ev, env, out.resp, "HTTP", out)
        /\ prev' = Brief(last)
        /\ nEvents' = nEvents + 1
        /\ UNCHANGED <<s3, procs, worker, extracted>>

Run(i, env) ==
    LET job == queue[i]
        out == execute(store, files, RemoveAt(queue, i), s3, job, env)
    IN  /\ store' = out.store
        /\ files' = out.files
        /\ queue' = out.queue
        /\ s3' = out.s3
        /\ last' = [Done("run", job, env, 0, out.status, out) EXCEPT
                       !.enq = IF out.status = "RETRY"
                               THEN <<out.queue[Len(out.queue)]>> ELSE <<>>]
        /\ prev' = Brief(last)
        /\ UNCHANGED <<nEvents, procs, worker, extracted>>

(***************************************************************************)
(* The handlers and the worker that are followed statement by statement,   *)
(* and the From header whose sender is extracted: none at the start.       *)
(***************************************************************************)
Handlers == {1, 2}

Idle == [pc |-> "idle", fax_id |-> "", file_path |-> None, removed |-> FALSE,
         missed |-> FALSE, enqueued |-> FALSE, resp |-> 0]

NoTask == [pc |-> "idle", file_path |-> None, file_name |-> None, fax_id |-> ""]

NoSenderYet == [raw |-> None, out |-> None, done |-> FALSE]

Init ==
    /\ store = <<>>
    /\ files = {}
    /\ queue = <<>>
    /\ s3 = {}
    /\ last = NoOp
    /\ prev = NoDelivery
    /\ nEvents = 0
    /\ procs = [h \in Handlers |-> Idle]
    /\ worker = NoTask
    /\ extracted = NoSenderYet

\* the whole program: both webhooks and the workers
Next ==
    \/ /\ nEvents < MaxEvents
       /\ \E body \in FaxBodies : \E env \in FaxEnvs(body) : Faxes(body, env)
    \/ /\ nEvents < MaxEvents
       /\ \E ev \in EmailEvents : \E env \in EmailEnvs(ev) : Email(ev, env)
    \/ \E i \in 1..Len(queue) : \E env \in RunEnvs(queue[i]) : Run(i, env)

Spec == Init /\ [][Next]_vars

\* the carrier's webhook and the workers alone, for longer runs of events
NextFaxes ==
    \/ /\ nEvents < MaxFaxEvents
       /\ \E body \in FaxBodies : \E env \in FaxEnvs(body) : Faxes(body, env)
    \/ \E i \in 1..Len(queue) : \E env \in RunEnvs(queue[i]) : Run(i, env)

SpecFaxes == Init /\ [][NextFaxes]_vars

(***************************************************************************)
(* Properties of POST /faxes.                                              *)
(***************************************************************************)
IsFaxes == last.op = "faxes"

IsReceived ==
    /\ IsFaxes
    /\ WellShaped(last.req)
    /\ last.req.event_type = "fax.received"

Success == 200..299

ClientError == 400..499

\* C1: every well-shaped event of a recognized type (fax.received/inbound,
\* fax.delivered, fax.email.delivered) is answered with a 2xx response,
\* whatever the fetch, the enqueue or the cleanup did.
C1_AlwaysAcknowledged ==
    (IsFaxes /\ WellShaped(last.req)) => last.resp \in Success

\* the mail the handler of a received fax is to queue
ExpectedEmailJob(body) ==
    [kind |-> "send-email", file_path |-> download_path(body.media_url),
     file_name |-> None, to |-> body.to, from |-> body.from,
     email |-> get_email_from_phone_number(DB, body.to), retries |-> 0]

Mapped(body) == get_email_from_phone_number(DB, body.to) # None

RecordOfFetchedFile(body) ==
    /\ body.fax_id \in DOMAIN store
    /\ store[body.fax_id] = join(DOWNLOAD_DIR, IF basename(body.media_url) = <<>>
                                                 THEN <<"attachment">>
                                                 ELSE basename(body.media_url))
    /\ store[body.fax_id] \in files

\* C2 (as claimed): after every fax.received/inbound event whose to number
\* is mapped, exactly one send-email job has been enqueued by the handler and
\* the FaxRecord of fax_id holds the path of the fetched file.
C2_OneJobOneRecord ==
    (IsReceived /\ Mapped(last.req)) =>
        /\ last.enq = <<ExpectedEmailJob(last.req)>>
        /\ last.kept
        /\ RecordOfFetchedFile(last.req)

\* C2 (amended): after every fax.received/inbound event whose to number is
\* mapped and whose attachment fetch succeeds, the FaxRecord of fax_id holds
\* the path of the fetched file, and the handler has enqueued exactly one
\* send-email job (staged path, from, to, mapped email), or none when the
\* enqueue call itself failed.
C2_OneJobOneRecordIfFetched ==
    (IsReceived /\ Mapped(last.req) /\ last.env.fetch = "ok") =>
        /\ RecordOfFetchedFile(last.req)
        /\ last.kept
        /\ last.resp = 200
        /\ last.env.enqueue = "ok" => last.enq = <<ExpectedEmailJob(last.req)>>
        /\ last.env.enqueue # "ok" => last.enq = <<>>

C2_Witness ==
    /\ IsReceived /\ Mapped(last.req) /\ last.env.fetch = "ok"
    /\ last.env.enqueue = "ok"
    /\ Len(queue) = 2
    /\ queue[2] = ExpectedEmailJob(last.req)
    /\ queue[2].email = EmailA

\* C3: a fax.received event whose to number has no directory mapping
\* enqueues no job and is answered with 200.
C3_UnmappedAcknowledged ==
    (IsFaxes /\ Key(last.req, "event_type") /\ Key(last.req, "to")
        /\ Key(last.req, "fax_id") /\ Key(last.req, "direction")
        /\ last.req.event_type = "fax.received" /\ ~ Mapped(last.req)) =>
        /\ last.enq = <<>>
        /\ last.resp = 200

\* C4: when a delivery confirmation (fax.delivered or fax.email.delivered)
\* is processed right after another one for the same fax_id, the second
\* changes nothing and answers 200, and the two together delete at most one
\* file and enqueue at most one purge-remote-blob job.
C4_SecondDeliveryNoOp ==
    (IsDelivery(last) /\ prev.fax_id = last.req.fax_id) =>
        /\ ~ last.changed
        /\ last.deleted = {}
        /\ last.enq = <<>>
        /\ last.resp = 200
        /\ prev.deleted + Cardinality(last.deleted) <= 1
        /\ prev.enq + Len(last.enq) <= 1

C4_Witness ==
    /\ IsDelivery(last) /\ prev.fax_id = last.req.fax_id
    /\ prev.deleted = 1 /\ prev.enq = 1
    /\ last.resp = 200

\* C7: a body that is not JSON, or lacks event_type, fax_id or direction,
\* gets a 4xx response and leaves the records, the files and the queue as
\* they were.
C7_MalformedIsClientError ==
    (IsFaxes /\ ~ (Key(last.req, "fax_id") /\ Key(last.req, "event_type")
                   /\ Key(last.req, "direction"))) =>
        /\ last.resp \in ClientError
        /\ ~ last.changed

(***************************************************************************)
(* Properties of the tasks.                                                *)
(***************************************************************************)
IsRun(kind) == last.op = "run" /\ last.req.kind = kind

\* the number of the execution last is, counted from 1
Attempt == last.req.retries + 1

Requeued ==
    /\ last.status = "RETRY"
    /\ last.enq = <<[last.req EXCEPT !.retries = @ + 1]>>
    /\ Len(queue) > 0
    /\ queue[Len(queue)] = [last.req EXCEPT !.retries = @ + 1]

\* the send-fax execution failed: the upload raised for want of credentials,
\* the presign failed or the carrier reported a failure
FaxAttemptFailed ==
    /\ IsRun("send-fax")
    /\ last.env.step \in {"upload", "presign", "status"}

\* C5: a send-fax job whose attempt fails is re-attempted, runs at most 3
\* times in all, and creates no FaxRecord when it is dropped.
C5_FailedFaxRetried ==
    FaxAttemptFailed =>
        /\ Attempt <= 3
        /\ Attempt < 3 => Requeued
        /\ ~ last.recorded

\* the send-email execution failed at the transport
EmailAttemptFailed ==
    /\ IsRun("send-email")
    /\ last.env.mail # "ok"

IsEmail == last.op = "email"

FromField(ev) == IF Key(ev, "From") THEN ev.From ELSE <<>>

\* no local@domain substring and no <...> pair in the From field
NoSender(ev) ==
    /\ findall(unescape(FromField(ev)), 1) = <<>>
    /\ angle_starts(unescape(FromField(ev))) = {}

\* C8: an inbound email whose To parses and whose From yields no sender
\* address is answered with 200 and dropped: nothing staged, nothing queued.
C8_UnresolvableSenderDropped ==
    (IsEmail /\ Key(last.req, "To") /\ NoSender(last.req)) =>
        /\ last.resp = 200
        /\ ~ last.changed
        /\ last.enq = <<>>

\* the phone number the directory maps the sender of ev to
SenderPhone(ev) ==
    LET sender == extract_email(FromField(ev))
        hits == {k \in 1..Len(DB) : lower(DB[k].email) = sender}
    IN  IF sender = None \/ hits = {} THEN None ELSE DB[SetMin(hits)].phone_number

Count(ev) == IF Key(ev, "count") THEN to_int(ev.count) ELSE 0

\* the indices 1..attachment-count whose part is present, has an extension
\* in {txt, pdf} and a content type in {application/pdf, text/plain}
Accepted(ev) ==
    {i \in 1..Count(ev) :
        /\ i \in DOMAIN ev.parts
        /\ LET name == secure_filename(ev.parts[i].filename)
           IN  /\ Positions(name, ".") # {}
               /\ lower(extension(name)) \in {<<"txt">>, <<"pdf">>}
        /\ ev.parts[i].mimetype \in {"application/pdf", "text/plain"}}

FaxJobsOf(ev) ==
    \A k \in 1..Len(last.enq) :
        /\ last.enq[k].kind = "send-fax"
        /\ last.enq[k].to = <<"+">> \o lstrip(strip(split_head(ev.To, "@"),
                                                     {" ", "'", "\""}), {"+"})
        /\ last.enq[k].from = SenderPhone(ev)
        /\ last.enq[k].retries = 0
        /\ last.enq[k].file_path \in files

\* C9 (as claimed): for an inbound email with a parsable To and a mapped
\* sender, the handler enqueues as many send-fax jobs as there are accepted
\* parts, each with to = the number of To and from = the sender's number,
\* and answers 200.
C9_OneJobPerAcceptedPart ==
    (IsEmail /\ Key(last.req, "To") /\ SenderPhone(last.req) # None) =>
        /\ Len(last.enq) = Cardinality(Accepted(last.req))
        /\ FaxJobsOf(last.req)
        /\ last.kept
        /\ last.resp = 200

\* C9 (amended): ... the handler enqueues as many send-fax jobs as there
\* are accepted parts whose enqueue call did not fail (a failed enqueue is
\* logged and the later parts are still processed), each with to = the
\* number of To and from = the sender's number, and answers 200.
C9_OneJobPerEnqueuedPart ==
    (IsEmail /\ Key(last.req, "To") /\ SenderPhone(last.req) # None) =>
        /\ Len(last.enq) = Cardinality(Accepted(last.req) \ last.env.enqueue_fails)
        /\ FaxJobsOf(last.req)
        /\ last.kept
        /\ last.resp = 200
        /\ Accepted(last.req) = {} => ~ last.changed

C9_Witness ==
    /\ IsEmail /\ Key(last.req, "To") /\ SenderPhone(last.req) = PhoneA
    /\ Key(last.req, "count") /\ last.req.count = "2"
    /\ DOMAIN last.req.parts = {2}
    /\ Len(last.enq) = 1
    /\ last.enq[1].to = PhoneC
    /\ last.enq[1].from = PhoneA
    /\ last.enq[1].file_name = <<"fax", ".", "pdf">>

(***************************************************************************)
(* Properties of the cleanup of POST /faxes.                               *)
(***************************************************************************)
\* what follows the last "/" of the path found
KeyOf(path) == SubSeq(path, SetMax(Positions(path, "/")) + 1, Len(path))

OnePurgeJob ==
    /\ Len(last.enq) = 1
    /\ last.enq[1].kind = "purge-remote-blob"
    /\ last.enq[1].file_name = KeyOf(last.found)
    /\ last.enq[1].retries = 0

NoRecordLeft == last.req.fax_id \notin DOMAIN store

\* C10 (as claimed): a delivery confirmation that finds a record whose file
\* exists deletes the file and enqueues one purge-remote-blob job keyed by
\* the file's base name; one that finds no record deletes and enqueues
\* nothing; no record of fax_id remains in either case.
C10_CleanupOnDelivery ==
    IsDelivery(last) =>
        /\ NoRecordLeft
        /\ (last.found # None /\ last.existed) =>
              (last.deleted = {last.found} /\ OnePurgeJob)
        /\ last.found = None => (last.deleted = {} /\ last.enq = <<>>)

\* C10 (amended): ... deletes the file and enqueues one purge-remote-blob
\* job keyed by the file's base name, unless removing the file fails (the
\* file then stays and no job is enqueued) or the enqueue fails (the file is
\* deleted and no job is enqueued); one that finds no record deletes and
\* enqueues nothing; no record of fax_id remains in any of these cases.
C10_CleanupUnlessItFails ==
    IsDelivery(last) =>
        /\ NoRecordLeft
        /\ last.resp = 200
        /\ last.kept
        /\ (last.found # None /\ last.existed) =>
              CASE last.env.remove # "ok" -> last.deleted = {} /\ last.enq = <<>>
                [] last.env.remove = "ok" /\ last.env.enqueue # "ok" ->
                      last.deleted = {last.found} /\ last.enq = <<>>
                [] OTHER -> last.deleted = {last.found} /\ OnePurgeJob
        /\ last.found = None => (last.deleted = {} /\ last.enq = <<>>)

C10_Witness ==
    /\ IsDelivery(last)
    /\ last.found = <<"/opt/telnyx/downloads", "/", "a", ".", "pdf">>
    /\ last.existed
    /\ last.deleted = {last.found}
    /\ last.found \notin files
    /\ queue # <<>>
    /\ queue[Len(queue)].file_name = <<"a", ".", "pdf">>

\* C11 (as claimed): every execution of the purge-remote-blob job is the
\* first and only one (never re-queued), ends without raising whatever
\* failed in it, writes no FaxRecord and deletes no local file.
C11_PurgeNeverRaises ==
    IsRun("purge-remote-blob") =>
        /\ Attempt = 1
        /\ last.status = "SUCCESS"
        /\ last.enq = <<>>
        /\ ~ last.recorded
        /\ last.deleted = {}

\* the last event is a complete fax.received / inbound event
IsInbound == IsReceived /\ last.req.direction = "inbound"

\* C12: when the attachment fetch of a fax.received/inbound event fails,
\* the store, the staged files and the queue are as they were: no FaxRecord
\* is written for the fax_id and no send-email job is enqueued.
C12_FetchFailureChangesNothing ==
    (IsInbound /\ last.env.fetch # "ok") =>
        /\ ~ last.changed
        /\ ~ last.recorded
        /\ last.enq = <<>>
        /\ last.found = None => last.req.fax_id \notin DOMAIN store

C12_Witness ==
    /\ IsInbound /\ last.env.fetch = "fail"
    /\ Mapped(last.req)
    /\ last.resp = 500
    /\ last.req.fax_id \notin DOMAIN store
    /\ queue = <<>>

\* the last event has the three keys the handler reads and is none of the
\* events it acts on
IsOtherEvent ==
    /\ IsFaxes
    /\ Key(last.req, "fax_id") /\ Key(last.req, "event_type")
    /\ Key(last.req, "direction")
    /\ ~ (last.req.event_type = "fax.received" /\ last.req.direction = "inbound")
    /\ last.req.event_type \notin {"fax.delivered", "fax.email.delivered"}

\* C16: an event that is neither fax.received/inbound nor fax.delivered nor
\* fax.email.delivered is answered with 200 and leaves every FaxRecord,
\* every staged file and the queue as they were.
C16_OtherEventIgnored ==
    IsOtherEvent =>
        /\ last.resp = 200
        /\ ~ last.changed
        /\ ~ last.recorded
        /\ last.deleted = {}
        /\ last.enq = <<>>

C16_Witness ==
    /\ IsOtherEvent
    /\ last.req.event_type = "fax.received" /\ last.req.direction = "outbound"
    /\ Key(last.req, "media_url")
    /\ last.resp = 200
    /\ last.found # None /\ last.existed
    /\ store[last.req.fax_id] = last.found
    /\ last.found \in files

\* the last event is a fax-lifecycle event handled for the second time in a
\* row, the first pass having been answered with 200
SecondPass == IsFaxes /\ Key(last.req, "event_type") /\ last.again

\* C14 (as claimed): handling a fax-lifecycle event a second time changes
\* nothing; the same fax.received/inbound event handled again enqueues no
\* further send-email job and leaves the record and the staged file as the
\* first pass left them.
C14_SecondPassNoOp ==
    SecondPass =>
        /\ ~ last.changed
        /\ last.enq = <<>>
        /\ last.deleted = {}

\* C14 (amended): a delivery confirmation or an event the handler does not
\* act on changes nothing when handled a second time; the same
\* fax.received/inbound event handled a second time, its fetch succeeding,
\* leaves the FaxRecord and the staged file as the first pass left them and
\* enqueues one further send-email job when the to number is mapped and the
\* enqueue succeeds (none otherwise); when its fetch fails it changes
\* nothing.
C14_SecondPassReenqueues ==
    SecondPass =>
        IF IsInbound /\ last.env.fetch = "ok"
        THEN /\ RecordOfFetchedFile(last.req)
             /\ last.found = store[last.req.fax_id]
             /\ ~ last.recorded
             /\ last.deleted = {}
             /\ last.kept
             /\ last.resp = 200
             /\ (Mapped(last.req) /\ last.env.enqueue = "ok")
                   => last.enq = <<ExpectedEmailJob(last.req)>>
             /\ ~ (Mapped(last.req) /\ last.env.enqueue = "ok") => last.enq = <<>>
        ELSE /\ ~ last.changed
             /\ last.enq = <<>>
             /\ last.deleted = {}

C14_Witness ==
    /\ SecondPass /\ IsInbound /\ last.env.fetch = "ok"
    /\ last.req.media_url = UrlRoot
    /\ Mapped(last.req)
    /\ Len(queue) = 2
    /\ queue[1] = queue[2]
    /\ queue[2] = ExpectedEmailJob(last.req)

\* the last operation is a send-fax execution that went through: every step
\* succeeded, the object is in the bucket and the FaxRecord of the fax_id the
\* carrier assigned holds the path of the job
FaxSent ==
    /\ IsRun("send-fax")
    /\ last.env.step = "none"
    /\ last.req.file_name \in s3
    /\ last.env.fax_id \in DOMAIN store
    /\ store[last.env.fax_id] = last.req.file_path

C18_RecordsHoldDistinctPaths ==
    \A f, g \in DOMAIN store : f # g => store[f] # store[g]

\* C19 (as claimed): the staged file of every queued send-email or send-fax
\* job exists, and every execution of such a job finds its file present.
C19_QueuedJobsHaveTheirFile ==
    /\ \A k \in 1..Len(queue) :
          queue[k].kind \in {"send-email", "send-fax"} => queue[k].file_path \in files
    /\ (IsRun("send-email") \/ IsRun("send-fax")) =>
          (last.req.file_path \in files \/ last.req.file_path \in last.deleted)

(***************************************************************************)
(* extract_email alone, applied to From headers put together from at most  *)
(* MaxPieces pieces: addresses, bracketed names, escaped brackets, single  *)
(* characters.                                                             *)
(***************************************************************************)
Pieces ==
    {<<"J", "@", "X", ".", "x">>, <<"k", "@", "x", ".", "x">>,
     <<"<", "J", ">">>, <<"<", "k", " ", "x", ">">>, <<"&lt;", "j", "&gt;">>,
     <<"<">>, <<">">>, <<"J">>, <<" ">>, <<"@">>}

RECURSIVE Flatten(_)
Flatten(ps) == IF ps = <<>> THEN <<>> ELSE Head(ps) \o Flatten(Tail(ps))

FromFields == {Flatten(ps) : ps \in UNION {[1..n -> Pieces] : n \in 0..MaxPieces}}

InitExtract ==
    /\ store = <<>>
    /\ files = {}
    /\ queue = <<>>
    /\ s3 = {}
    /\ last = NoOp
    /\ prev = NoDelivery
    /\ nEvents = 0
    /\ procs = [h \in Handlers |-> Idle]
    /\ worker = NoTask
    /\ extracted \in {[raw |-> f, out |-> None, done |-> FALSE] : f \in FromFields}

Extract ==
    /\ ~ extracted.done
    /\ extracted' = [extracted EXCEPT !.out = extract_email(extracted.raw),
                                      !.done = TRUE]
    /\ UNCHANGED <<store, files, queue, s3, last, prev, nEvents, procs, worker>>

NextExtract == Extract

SpecExtract == InitExtract /\ [][NextExtract]_vars

\* the contents of the <...> pair that opens at position i of s
AngleAt(s, i) == SubSeq(s, i + 1, RunEnd(s, i + 1, FromChars \ {"<", ">"}))

\* the sender is the last local@domain substring of the unescaped header,
\* lowercased
IsLastAddress(decoded, out) ==
    /\ out = lower(findall(decoded, 1)[Len(findall(decoded, 1))])
    /\ \E a \in 1..Len(out) : out[a] = "@"
    /\ \A a \in 1..Len(out) : out[a] = LowerTok(out[a])
    /\ \E i \in 1..Len(decoded) :
          /\ i + Len(out) - 1 <= Len(decoded)
          /\ lower(SubSeq(decoded, i, i + Len(out) - 1)) = out
          /\ \A j \in (i + Len(out) + 1)..Len(decoded) : match_end(decoded, j) = 0

\* C17 (as claimed): the extracted sender is the last local@domain
\* substring of the unescaped From header, lowercased, when there is one,
\* and otherwise the lowercased contents of the last <...> pair.
C17_LastAddressElseLastAngle ==
    extracted.done =>
        LET decoded == unescape(extracted.raw)
        IN  IF findall(decoded, 1) # <<>>
            THEN IsLastAddress(decoded, extracted.out)
            ELSE angle_starts(decoded) # {} =>
                   extracted.out = lower(AngleAt(decoded, SetMax(angle_starts(decoded))))

\* C17 (amended): the extracted sender is the last local@domain substring
\* of the unescaped From header, lowercased, when there is one; otherwise
\* the lowercased contents of the first <...> pair; None when there is
\* neither.
C17_LastAddressElseFirstAngle ==
    extracted.done =>
        LET decoded == unescape(extracted.raw)
        IN  IF findall(decoded, 1) # <<>>
            THEN IsLastAddress(decoded, extracted.out)
            ELSE IF angle_starts(decoded) # {}
            THEN extracted.out = lower(AngleAt(decoded, SetMin(angle_starts(decoded))))
            ELSE extracted.out = None

C17_Witness ==
    /\ extracted.done
    /\ extracted.raw = <<"&lt;", "j", "&gt;", "<", "J", ">", "<", "k", " ", "x", ">">>
    /\ extracted.out = <<"j">>

(***************************************************************************)
(* The delivery branch of inbound_message, statement by statement, in two  *)
(* requests handled at the same time: each reads the record, deletes it,   *)
(* tests the file, removes it, enqueues the purge and answers.  The files  *)
(* and records they meet are staged by fax.received events handled before  *)
(* either request starts.                                                  *)
(***************************************************************************)
\* an os.remove that does not mind a missing file
os_remove_force(fs, path, result) ==
    IF result # "ok"
    THEN [raised |-> TRUE, files |-> fs]
    ELSE [raised |-> FALSE, files |-> fs \ {path}]

\* os.remove: raises when the file is not there (FileNotFoundError) or
\* cannot be removed
os_remove(fs, path, result) ==
    IF path \notin fs \/ result # "ok"
    THEN [raised |-> TRUE, files |-> fs]
    ELSE [raised |-> FALSE, files |-> fs \ {path}]

Staged(body, env) ==
    /\ nEvents < MaxRaceEvents
    /\ \A h \in Handlers : procs[h].pc = "idle"
    /\ Faxes(body, env)

\* a fax.delivered / fax.email.delivered request for fax_id reaches line 259
Begin(h, fax_id) ==
    /\ procs[h].pc = "idle"
    /\ procs' = [procs EXCEPT ![h].pc = "get", ![h].fax_id = fax_id]
    /\ UNCHANGED <<store, files, queue, s3, last, prev, nEvents, worker, extracted>>

\* file_path = get_fax_file(fax_id)
Get(h) ==
    /\ procs[h].pc = "get"
    /\ procs' = [procs EXCEPT ![h].pc = "delete",
                               ![h].file_path = get_fax_file(store, procs[h].fax_id)]
    /\ UNCHANGED <<store, files, queue, s3, last, prev, nEvents, worker, extracted>>

\* delete_fax_file(fax_id)
DeleteRecord(h) ==
    /\ procs[h].pc = "delete"
    /\ store' = delete_fax_file(store, procs[h].fax_id)
    /\ procs' = [procs EXCEPT ![h].pc = "exists"]
    /\ UNCHANGED <<files, queue, s3, last, prev, nEvents, worker, extracted>>

\* if file_path and os.path.exists(file_path): ... else: return 200
Exists(h) ==
    /\ procs[h].pc = "exists"
    /\ procs' = IF procs[h].file_path # None /\ procs[h].file_path \in files
                THEN [procs EXCEPT ![h].pc = "remove"]
                ELSE [procs EXCEPT ![h].pc = "done", ![h].resp = 200]
    /\ UNCHANGED <<store, files, queue, s3, last, prev, nEvents, worker, extracted>>

\* os.remove(file_path), under the try: an exception is logged and the
\* handler returns 200
Remove(h, result) ==
    LET out == os_remove(files, procs[h].file_path, result)
    IN  /\ procs[h].pc = "remove"
        /\ files' = out.files
        /\ procs' = IF out.raised
                    THEN [procs EXCEPT ![h].pc = "done", ![h].resp = 200,
                                       ![h].missed = procs[h].file_path \notin files]
                    ELSE [procs EXCEPT ![h].pc = "enqueue", ![h].removed = TRUE]
        /\ UNCHANGED <<store, queue, s3, last, prev, nEvents, worker, extracted>>

\* delete_from_s3_task.delay(os.path.basename(file_path)), under the same
\* try, and the return
Enqueue(h, result) ==
    /\ procs[h].pc = "enqueue"
    /\ queue' = IF result = "ok"
                THEN Append(queue, PurgeJob(basename(procs[h].file_path)))
                ELSE queue
    /\ procs' = [procs EXCEPT ![h].pc = "done", ![h].resp = 200,
                               ![h].enqueued = (result = "ok")]
    /\ UNCHANGED <<store, files, s3, last, prev, nEvents, worker, extracted>>

NextRace ==
    \/ \E body \in ReceivedBodies : \E env \in FaxEnvs(body) : Staged(body, env)
    \/ \E h \in Handlers : \E fax_id \in FaxIds : Begin(h, fax_id)
    \/ \E h \in Handlers : Get(h)
    \/ \E h \in Handlers : DeleteRecord(h)
    \/ \E h \in Handlers : Exists(h)
    \/ \E h \in Handlers : \E result \in Results : Remove(h, result)
    \/ \E h \in Handlers : \E result \in Results : Enqueue(h, result)

SpecRace == Init /\ [][NextRace]_vars

\* the purge-remote-blob messages in the queue
PurgeJobs == {k \in 1..Len(queue) : queue[k].kind = "purge-remote-blob"}

\* both requests are for the same fax_id
SameFax == procs[1].fax_id # "" /\ procs[1].fax_id = procs[2].fax_id

\* C13: when two requests confirm the delivery of the same fax_id at the
\* same time, under every interleaving of their store reads, store deletes,
\* existence tests and removals, at most one of them removes the local
\* file, at most one purge-remote-blob job is enqueued, and each answers
\* 200.
C13_RaceCleansUpOnce ==
    SameFax =>
        /\ ~ (procs[1].removed /\ procs[2].removed)
        /\ ~ (procs[1].enqueued /\ procs[2].enqueued)
        /\ Cardinality(PurgeJobs) <= 1
        /\ \A h \in Handlers : procs[h].enqueued => procs[h].removed
        /\ \A h \in Handlers : procs[h].pc = "done" => procs[h].resp = 200

C13_Witness ==
    /\ SameFax
    /\ \A h \in Handlers : procs[h].pc = "done" /\ procs[h].resp = 200
    /\ procs[1].file_path # None /\ procs[1].file_path = procs[2].file_path
    /\ procs[1].removed /\ procs[1].enqueued
    /\ procs[2].missed /\ ~ procs[2].removed
    /\ Cardinality(PurgeJobs) = 1

(***************************************************************************)
(* The outbound path with send_fax_task followed in its two halves: the    *)
(* upload and the creation of the fax, after which the carrier knows the   *)
(* fax_id and may confirm its delivery, and the write of the FaxRecord.    *)
(* The email that stages the file is handled before the task starts; the   *)
(* confirmation is handled with every call of its cleanup succeeding.      *)
(***************************************************************************)
Submitted(ev, env) ==
    /\ nEvents < MaxOutEvents
    /\ worker.pc = "idle"
    /\ Email(ev, env)

\* a worker takes a send-fax message off the queue
Take(i) ==
    /\ worker.pc = "idle"
    /\ queue[i].kind = "send-fax"
    /\ worker' = [worker EXCEPT !.pc = "create", !.file_path = queue[i].file_path,
                                 !.file_name = queue[i].file_name]
    /\ queue' = RemoveAt(queue, i)
    /\ UNCHANGED <<store, files, s3, last, prev, nEvents, procs, extracted>>

\* upload_to_s3, generate_presigned_url, client.faxes.create and the test of
\* the status: an exception ends the task in the except clause
Create(env) ==
    /\ worker.pc = "create"
    /\ s3' = IF env.step \in {"bucket", "upload"} \/ worker.file_path \notin files
             THEN s3 ELSE s3 \cup {worker.file_name}
    /\ worker' = IF env.step # "none" \/ worker.file_path \notin files
                 THEN [worker EXCEPT !.pc = "failed"]
                 ELSE [worker EXCEPT !.pc = "persist", !.fax_id = env.fax_id]
    /\ UNCHANGED <<store, files, queue, last, prev, nEvents, procs, extracted>>

\* set_fax_file(fax_id, file_path); return fax_id
Persist ==
    /\ worker.pc = "persist"
    /\ store' = set_fax_file(store, worker.fax_id, worker.file_path)
    /\ worker' = [worker EXCEPT !.pc = "done"]
    /\ UNCHANGED <<files, queue, s3, last, prev, nEvents, procs, extracted>>

\* the carrier confirms the delivery of the fax it has created
Confirm(body) ==
    /\ worker.pc \in {"persist", "done"}
    /\ ~ IsDelivery(last)
    /\ body.event_type \in {"fax.delivered", "fax.email.delivered"}
    /\ body.fax_id = worker.fax_id
    /\ Faxes(body, NoEnv)

NextOutbound ==
    \/ \E ev \in EmailEvents : \E env \in EmailEnvs(ev) : Submitted(ev, env)
    \/ \E i \in 1..Len(queue) : Take(i)
    \/ \E env \in RunEnvs([kind |-> "send-fax"]) : Create(env)
    \/ Persist
    \/ \E body \in ShortBodies : Confirm(body)

SpecOutbound == Init /\ [][NextOutbound]_vars

\* C20 (as claimed): once the send-fax job of an outbound fax has finished
\* and the delivery confirmation for its carrier-assigned fax_id has been
\* processed, in either order, no FaxRecord for that fax_id remains and the
\* staged file of the job has been deleted.
C20_OutboundCleanedUp ==
    (worker.pc = "done" /\ IsDelivery(last) /\ last.req.fax_id = worker.fax_id) =>
        /\ worker.fax_id \notin DOMAIN store
        /\ worker.file_path \notin files
====
